---- MODULE Spec2Model ----
(***************************************************************************)
(* A model of plonky's second-generation circuit builder                   *)
(* (src/plonk2/mod.rs: CircuitBuilder2, Target2) and of the recursive      *)
(* verification gadgets (src/plonk_recursion.rs).                          *)
(*                                                                         *)
(* Three specifications share the variables:                               *)
(*   Spec        the builder's operations, called in any order;            *)
(*   SpecWitness generate_copy / route followed by witness resolution;     *)
(*   SpecArith   the recursion gadgets evaluated over a prime field.       *)
(***************************************************************************)
EXTENDS Integers, Sequences, FiniteSets, TLC

\* ------------------------------------------------------------------ bounds

\* Builder calls per behaviour of Spec.
MaxCalls == 3
\* Distinct gate instances a caller may hand to add_gate.
NumInstances == 2
\* Generators registered before resolution starts, in SpecWitness.
MaxGenerators == 2
\* Gadget inputs of SpecArith: list lengths, values, and degree_pow.
MaxLen == 3
MaxVal == 7
MaxDegreePow == 3

\* ------------------------------------------------------------- the field

\* The order of the field F (a prime); NEG_ONE is ORDER - 1.
ORDER == 43

\* Marks the absence of a field element: an unassigned target, or a value
\* no witness can supply (the inverse of zero).
NoValue == ORDER

Field == 0 .. (ORDER - 1)

ZERO == 0
ONE == 1
TWO == 2
NEG_ONE == ORDER - 1

\* ------------------------------------------------------------- Target2

\* Wires per gate, and how many of them take part in the permutation.
NUM_WIRES == 2
NUM_ROUTED_WIRES == 1

Wire(gate, input) == <<"Wire", gate, input>>
PublicInput(index) == <<"PublicInput", index, 0>>
VirtualAdviceTarget(index) == <<"VirtualAdviceTarget", index, 0>>

\* No target: the value of a call that returned nothing.
NoTarget == <<"None", 0, 0>>

\* The targets the callers of the model use.
Targets ==
    {Wire(0, i) : i \in 0 .. (NUM_WIRES - 1)}
        \cup {PublicInput(i) : i \in 0 .. 1}
        \cup {VirtualAdviceTarget(0)}

\* Wire::is_routable.
WireIsRoutable(t) == t[3] < NUM_ROUTED_WIRES

\* Target2::is_routable.
is_routable(t) ==
    CASE t[1] = "Wire" -> WireIsRoutable(t)
      [] t[1] = "PublicInput" -> TRUE
      [] t[1] = "VirtualAdviceTarget" -> FALSE

\* ------------------------------------------------------- the builder

VARIABLES
    gates,          \* CircuitBuilder2.gates
    gate_instances, \* CircuitBuilder2.gate_instances
    generators,     \* CircuitBuilder2.generators
    outcome,        \* how the latest call ended: "ok" or the panic's message
    last,           \* the latest call: its name, arguments and return value
    calls,          \* number of builder calls made
    add_gate_calls, \* history: every add_gate call's argument and return value
    asserted,       \* history: the pairs of the assert_equal calls that returned
    routed,         \* history: the pairs of the route calls that returned
    phase,          \* witness resolution: "build", "resolve", then its result
    initial,        \* the assignment resolution started from
    witness,        \* the global partial witness
    ran,            \* indices of the generators that have run
    call,           \* SpecArith: the gadget called and its inputs
    ret             \* SpecArith: what the call produced

builder == <<gates, gate_instances, generators>>
history == <<add_gate_calls, asserted, routed>>
resolution == <<phase, initial, witness, ran>>
arith == <<call, ret>>
vars == <<gates, gate_instances, generators, outcome, last, calls,
          add_gate_calls, asserted, routed, phase, initial, witness, ran,
          call, ret>>

\* The equality pairs the builder holds for the permutation argument.
\* CircuitBuilder2 has the three fields above and no other: none of them
\* stores a pair of targets to be kept equal.
copy_constraints == {}

Ok == "ok"
AssertionFailed == "assertion failed"
NotYetImplemented == "not yet implemented"

Call(op, x, y, c, r, holds) ==
    [op |-> op, x |-> x, y |-> y, c |-> c, ret |-> r, holds |-> holds]

NoCall == Call("new", NoTarget, NoTarget, NoValue, NoTarget, NoValue)

NoArith == [fn |-> "none", list |-> <<>>, scalar |-> 0, n |-> 0]
NoRet ==
    [status |-> Ok, value |-> NoValue, zeta_power_d |-> NoValue,
     zero_eval |-> NoValue, lagrange_1_eval |-> NoValue,
     alpha_reduced |-> FALSE, copied |-> FALSE, built |-> FALSE,
     returned |-> FALSE]

\* CircuitBuilder2::new, before any call and before resolution.
Init ==
    /\ gates = {}
    /\ gate_instances = <<>>
    /\ generators = <<>>
    /\ outcome = Ok
    /\ last = NoCall
    /\ calls = 0
    /\ add_gate_calls = <<>>
    /\ asserted = {}
    /\ routed = {}
    /\ phase = "build"
    /\ initial = [t \in Targets |-> NoValue]
    /\ witness = [t \in Targets |-> NoValue]
    /\ ran = {}
    /\ call = NoArith
    /\ ret = NoRet

\* A call is possible on a builder no earlier call has panicked on, while
\* the circuit is still being assembled.
Callable == outcome = Ok /\ phase = "build"

\* A faulty variant of add_gate_index: the length is read after the push.
add_gate_index_after_push(instances) == Len(instances) + 1

\* add_gate: `let index = self.gate_instances.len()`.
add_gate_index(instances) == Len(instances)

\* add_gate: `self.gate_instances.push(gate_instance)`.
add_gate_push(instances, gate_instance) == Append(instances, gate_instance)

add_gate(gate_instance) ==
    /\ Callable
    /\ gate_instances' = add_gate_push(gate_instances, gate_instance)
    /\ add_gate_calls' =
           Append(add_gate_calls,
                  [instance |-> gate_instance,
                   index |-> add_gate_index(gate_instances)])
    /\ last' = Call("add_gate", NoTarget, NoTarget, NoValue, NoTarget, NoValue)
    /\ outcome' = Ok
    /\ calls' = calls + 1
    /\ UNCHANGED <<gates, generators, asserted, routed, resolution, arith>>

\* generate_copy's CopyGenerator { x, y }.
CopyGenerator(x, y) == [kind |-> "CopyGenerator", x |-> x, y |-> y]

\* add_generator: `self.generators.push(Box::new(generator))`.
push_generator(gens, g) == Append(gens, g)

add_generator(g) ==
    /\ Callable
    /\ generators' = push_generator(generators, g)
    /\ last' = Call("add_generator", g.x, g.y, NoValue, NoTarget, NoValue)
    /\ outcome' = Ok
    /\ calls' = calls + 1
    /\ UNCHANGED <<gates, gate_instances, history, resolution, arith>>

generate_copy(x, y) ==
    /\ Callable
    /\ generators' = push_generator(generators, CopyGenerator(x, y))
    /\ last' = Call("generate_copy", x, y, NoValue, NoTarget, NoValue)
    /\ outcome' = Ok
    /\ calls' = calls + 1
    /\ UNCHANGED <<gates, gate_instances, history, resolution, arith>>

\* A faulty variant of assert_equal_outcome: only x is checked.
assert_equal_checks_x_only(x, y) ==
    IF ~is_routable(x) THEN AssertionFailed ELSE Ok

\* assert_equal's two assertions, in order.
assert_equal_outcome(x, y) ==
    IF ~is_routable(x) THEN AssertionFailed
    ELSE IF ~is_routable(y) THEN AssertionFailed
    ELSE Ok

\* assert_equal writes to no field of the builder.
assert_equal(x, y) ==
    /\ Callable
    /\ outcome' = assert_equal_outcome(x, y)
    /\ asserted' = IF outcome' = Ok THEN asserted \cup {<<x, y>>} ELSE asserted
    /\ last' = Call("assert_equal", x, y, NoValue, NoTarget, NoValue)
    /\ calls' = calls + 1
    /\ UNCHANGED <<builder, add_gate_calls, routed, resolution, arith>>

\* A faulty variant of route_generator: the copy runs from y to x.
route_generator_reversed(x, y) == CopyGenerator(y, x)

\* route: the generator `self.generate_copy(x, y)` registers.
route_generator(x, y) == CopyGenerator(x, y)

\* route: generate_copy, then assert_equal.
route(x, y) ==
    /\ Callable
    /\ generators' = push_generator(generators, route_generator(x, y))
    /\ outcome' = assert_equal_outcome(x, y)
    /\ asserted' = IF outcome' = Ok THEN asserted \cup {<<x, y>>} ELSE asserted
    /\ routed' = IF outcome' = Ok THEN routed \cup {<<x, y>>} ELSE routed
    /\ last' = Call("route", x, y, NoValue, NoTarget, NoValue)
    /\ calls' = calls + 1
    /\ UNCHANGED <<gates, gate_instances, add_gate_calls, resolution, arith>>

\* A faulty variant of todo: the unfinished value is taken to be zero.
todo_as_zero == [panic |-> FALSE, value |-> ZERO]

\* `todo!()`: panics with "not yet implemented" and yields no value.
todo == [panic |-> TRUE, value |-> NoValue]

\* constant: its body is `todo!()`.
constant_body(c) == todo

\* What a call of constant, named op, leaves behind.
constant_call(op, c) ==
    LET body == constant_body(c) IN
    /\ Callable
    /\ outcome' = IF body.panic THEN NotYetImplemented ELSE Ok
    /\ last' = Call(op, NoTarget, NoTarget, c, NoTarget, body.value)
    /\ calls' = calls + 1
    /\ UNCHANGED <<builder, history, resolution, arith>>

constant(c) == constant_call("constant", c)
zero == constant_call("zero", ZERO)
one == constant_call("one", ONE)
two == constant_call("two", TWO)
neg_one == constant_call("neg_one", NEG_ONE)

Instances == 1 .. NumInstances

\* A generator a caller hands to add_generator directly: it depends on
\* nothing and assigns nothing.
IdleGenerator == [kind |-> "IdleGenerator", x |-> NoTarget, y |-> NoTarget]

Budget == calls < MaxCalls

Next ==
    \/ Budget /\ \E gi \in Instances : add_gate(gi)
    \/ Budget /\ add_generator(IdleGenerator)
    \/ Budget /\ \E x, y \in Targets : generate_copy(x, y)
    \/ Budget /\ \E x, y \in Targets : assert_equal(x, y)
    \/ Budget /\ \E x, y \in Targets : route(x, y)
    \/ Budget /\ \E c \in 0 .. MaxVal : constant(c)
    \/ Budget /\ zero
    \/ Budget /\ one
    \/ Budget /\ two
    \/ Budget /\ neg_one

Spec == Init /\ [][Next]_vars

\* ------------------------------------------------- witness resolution

\* The values a caller assigns before resolution. A copy generator only
\* moves values, so two distinct ones show every agreement and conflict.
WitnessValues == {ONE, TWO}

\* PartialWitness2: a partial map from targets to field elements.
PartialWitnesses == [Targets -> WitnessValues \cup {NoValue}]

\* PartialWitness2::new.
EmptyWitness == [t \in Targets |-> NoValue]

\* PartialWitness2::singleton.
Singleton(target, value) ==
    [t \in Targets |-> IF t = target THEN value ELSE NoValue]

\* PartialWitness2::contains.
Contains(w, target) == target \in Targets /\ w[target] # NoValue

\* PartialWitness2::get, on a target the witness contains.
Get(w, target) == w[target]

\* Two partial witnesses give some target different values.
Disagree(w1, w2) ==
    \E t \in Targets : Contains(w1, t) /\ Contains(w2, t) /\ w1[t] # w2[t]

\* The union of two partial witnesses that agree.
Merge(w1, w2) ==
    [t \in Targets |-> IF Contains(w1, t) THEN w1[t] ELSE w2[t]]

\* CopyGenerator::dependencies: `vec![self.x]`.
dependencies(g) ==
    IF g.kind = "CopyGenerator" THEN <<g.x>> ELSE <<>>

\* CopyGenerator::run_once: `singleton(self.y, witness.get(self.x))`.
run_once(g, w) ==
    IF g.kind = "CopyGenerator" THEN Singleton(g.y, Get(w, g.x))
    ELSE EmptyWitness

\* A generator is runnable once the witness holds all its dependencies.
Runnable(i) ==
    /\ i \in (1 .. Len(generators)) \ ran
    /\ \A k \in 1 .. Len(dependencies(generators[i])) :
           Contains(witness, dependencies(generators[i])[k])

\* The caller finishes the circuit and supplies the explicit inputs.
StartResolution(w0) ==
    /\ Callable
    /\ phase' = "resolve"
    /\ initial' = w0
    /\ witness' = w0
    /\ ran' = {}
    /\ UNCHANGED <<builder, outcome, last, calls, history, arith>>

\* One runnable generator runs once; its output is merged into the global
\* witness, or resolution fails on an inconsistent assignment.
RunGenerator(i) ==
    /\ phase = "resolve"
    /\ Runnable(i)
    /\ LET out == run_once(generators[i], witness) IN
           IF Disagree(witness, out)
           THEN /\ phase' = "conflict"
                /\ UNCHANGED <<witness, ran>>
           ELSE /\ witness' = Merge(witness, out)
                /\ ran' = ran \cup {i}
                /\ phase' = phase
    /\ UNCHANGED <<builder, outcome, last, calls, history, initial, arith>>

\* A pass makes no progress: resolution is complete, or it has stalled.
FinishResolution ==
    /\ phase = "resolve"
    /\ \A i \in 1 .. Len(generators) : ~Runnable(i)
    /\ phase' = IF ran = 1 .. Len(generators) THEN "done" ELSE "stalled"
    /\ UNCHANGED <<builder, outcome, last, calls, history, initial, witness,
                   ran, arith>>

NextWitness ==
    \/ Len(generators) < MaxGenerators /\ \E x, y \in Targets : route(x, y)
    \/ \E w0 \in PartialWitnesses : StartResolution(w0)
    \/ \E i \in 1 .. Len(generators) : RunGenerator(i)
    \/ FinishResolution

SpecWitness == Init /\ [][NextWitness]_vars

\* ------------------------------------------- the recursion gadgets

\* The builder primitives of plonk_recursion.rs, read as the field
\* operations they constrain. NoValue stands for a value no witness can
\* supply, and every operation passes it on.
add(a, b) ==
    IF a = NoValue \/ b = NoValue THEN NoValue ELSE (a + b) % ORDER

sub(a, b) ==
    IF a = NoValue \/ b = NoValue THEN NoValue ELSE (a - b + ORDER) % ORDER

mul(a, b) ==
    IF a = NoValue \/ b = NoValue THEN NoValue ELSE (a * b) % ORDER

inv(a) ==
    IF a = NoValue \/ a = 0 THEN NoValue
    ELSE CHOOSE v \in Field : (a * v) % ORDER = 1

div(a, b) == mul(a, inv(b))

double(a) == add(a, a)

zero_wire == ZERO
one_wire == ONE
constant_wire(c) == c

\* Field::from_canonical_usize.
from_canonical_usize(n) == n % ORDER

\* `1 << degree_pow`.
RECURSIVE shl1(_)
shl1(n) == IF n = 0 THEN 1 ELSE 2 * shl1(n - 1)

\* A faulty variant of alpha_weight: the weight is multiplied for term 0 as well.
alpha_weight_every_term(i, weight, alpha) == mul(weight, alpha)

\* alpha_reduction: `if i != 0 { weight = builder.mul(weight, alpha); }`,
\* with i counted from 0.
alpha_weight(i, weight, alpha) ==
    IF i # 0 THEN mul(weight, alpha) ELSE weight

\* alpha_reduction's loop, from term i (counted from 0) on.
RECURSIVE alpha_reduction_loop(_, _, _, _, _)
alpha_reduction_loop(terms, alpha, i, reduction, weight) ==
    IF i >= Len(terms) THEN reduction
    ELSE LET w == alpha_weight(i, weight, alpha)
             weighted_term == mul(w, terms[i + 1])
         IN  alpha_reduction_loop(terms, alpha, i + 1,
                                  add(reduction, weighted_term), w)

alpha_reduction(terms, alpha) ==
    alpha_reduction_loop(terms, alpha, 0, zero_wire, one_wire)

\* `.rev()`.
Reverse(s) == [i \in 1 .. Len(s) |-> s[Len(s) + 1 - i]]

\* A faulty variant of composite_order: the components are taken front to back.
composite_order_forward(component_evals) == component_evals

\* eval_composite_poly: `component_evals.iter().rev()`.
composite_order(component_evals) == Reverse(component_evals)

\* eval_composite_poly's loop over the components in the order given.
RECURSIVE eval_composite_poly_loop(_, _, _, _)
eval_composite_poly_loop(evals, zeta_power_d, i, sum) ==
    IF i > Len(evals) THEN sum
    ELSE eval_composite_poly_loop(
             evals, zeta_power_d, i + 1,
             add(mul(sum, zeta_power_d), evals[i]))

eval_composite_poly(component_evals, zeta_power_d) ==
    eval_composite_poly_loop(composite_order(component_evals),
                             zeta_power_d, 1, zero_wire)

\* halo_g's loop, from u_i on.
RECURSIVE halo_g_loop(_, _, _, _)
halo_g_loop(us, i, product, x_power) ==
    IF i > Len(us) THEN product
    ELSE LET u_i == us[i]
             u_i_inv == inv(u_i)
             u_i_inv_times_x_power == mul(u_i_inv, x_power)
             term == add(u_i, u_i_inv_times_x_power)
         IN  halo_g_loop(us, i + 1, mul(product, term), double(x_power))

halo_g(x, us) == halo_g_loop(us, 1, one_wire, x)

\* verify_assumptions: `for _i in 0..degree_pow { zeta_power_d =
\* builder.double(zeta_power_d); }`.
RECURSIVE zeta_power_loop(_, _)
zeta_power_loop(zeta_power_d, n) ==
    IF n = 0 THEN zeta_power_d
    ELSE zeta_power_loop(double(zeta_power_d), n - 1)

\* verify_assumptions, with zeta holding the given value: the values its
\* targets take, and how far the construction gets. What follows the two
\* unfinished terms (the constraint terms, alpha_reduction, the quotient,
\* eval_composite_poly and the final copy) is recorded as reached or not.
verify_assumptions(degree_pow, zeta) ==
    LET degree == shl1(degree_pow)
        degree_f == from_canonical_usize(degree)
        degree_wire == constant_wire(degree_f)
        zeta_power_d == zeta_power_loop(zeta, degree_pow)
        zero_eval == sub(zeta_power_d, one_wire)
        zeta_minus_one == sub(zeta, one_wire)
        lagrange_1_eval_denominator == mul(degree_wire, zeta_minus_one)
        lagrange_1_eval == div(zero_eval, lagrange_1_eval_denominator)
        vanishing_z_1_term == todo
        vanishing_v_shift_term == todo
        panicked == vanishing_z_1_term.panic \/ vanishing_v_shift_term.panic
    IN  [status |-> IF panicked THEN NotYetImplemented ELSE Ok,
         value |-> NoValue,
         zeta_power_d |-> zeta_power_d,
         zero_eval |-> zero_eval,
         lagrange_1_eval |-> lagrange_1_eval,
         alpha_reduced |-> ~panicked,
         copied |-> ~panicked,
         built |-> FALSE,
         returned |-> FALSE]

\* recursive_verification_circuit: the proof targets and the challenges,
\* then verify_assumptions, then `builder.build()` and the return.
recursive_verification_circuit(degree_pow, zeta) ==
    LET va == verify_assumptions(degree_pow, zeta)
    IN  IF va.status # Ok THEN va
        ELSE [va EXCEPT !.built = TRUE, !.returned = TRUE]

Value(v) == [NoRet EXCEPT !.value = v]

\* No gadget has been called yet.
Idle == call.fn = "none"

Lists(S) == UNION {[1 .. n -> S] : n \in 0 .. MaxLen}

Inputs == 0 .. MaxVal

CallAlphaReduction(terms, alpha) ==
    /\ call' = [fn |-> "alpha_reduction", list |-> terms, scalar |-> alpha,
                n |-> 0]
    /\ ret' = Value(alpha_reduction(terms, alpha))
    /\ UNCHANGED <<builder, outcome, last, calls, history, resolution>>

CallEvalCompositePoly(component_evals, zeta_power_d) ==
    /\ call' = [fn |-> "eval_composite_poly", list |-> component_evals,
                scalar |-> zeta_power_d, n |-> 0]
    /\ ret' = Value(eval_composite_poly(component_evals, zeta_power_d))
    /\ UNCHANGED <<builder, outcome, last, calls, history, resolution>>

CallHaloG(x, us) ==
    /\ call' = [fn |-> "halo_g", list |-> us, scalar |-> x, n |-> 0]
    /\ ret' = Value(halo_g(x, us))
    /\ UNCHANGED <<builder, outcome, last, calls, history, resolution>>

CallRecursiveVerificationCircuit(degree_pow, zeta) ==
    /\ call' = [fn |-> "recursive_verification_circuit", list |-> <<>>,
                scalar |-> zeta, n |-> degree_pow]
    /\ ret' = recursive_verification_circuit(degree_pow, zeta)
    /\ UNCHANGED <<builder, outcome, last, calls, history, resolution>>

NextArith ==
    \/ Idle /\ \E terms \in Lists(Inputs), alpha \in Inputs :
                   CallAlphaReduction(terms, alpha)
    \/ Idle /\ \E evals \in Lists(Inputs), s \in Inputs :
                   CallEvalCompositePoly(evals, s)
    \/ Idle /\ \E x \in Inputs, us \in Lists(Inputs) : CallHaloG(x, us)
    \/ Idle /\ \E degree_pow \in 0 .. MaxDegreePow, zeta \in Field :
                   CallRecursiveVerificationCircuit(degree_pow, zeta)

SpecArith == Init /\ [][NextArith]_vars

\* ------------------------------------------------------------ claims

Symmetric(pairs) == pairs \cup {<<p[2], p[1]>> : p \in pairs}

RECURSIVE Reach(_, _)
Reach(S, pairs) ==
    LET N == S \cup {p[2] : p \in {q \in Symmetric(pairs) : q[1] \in S}}
    IN  IF N = S THEN S ELSE Reach(N, pairs)

\* a and b are in one equivalence class of the recorded copy constraints.
SameClass(a, b) == b \in Reach({a}, copy_constraints)

\* C1: whenever assert_equal(a, b) and assert_equal(b, c) have both
\* returned for routable targets a, b, c, the builder's recorded copy
\* constraints place a, b and c in one equivalence class.
C1_TransitiveEquivalence ==
    \A a, b, c \in Targets :
        (<<a, b>> \in asserted /\ <<b, c>> \in asserted)
            => (SameClass(a, b) /\ SameClass(b, c) /\ SameClass(a, c))

\* A target that is not routable, told by its kind alone.
NonRoutable(t) ==
    \/ t[1] = "VirtualAdviceTarget"
    \/ t[1] = "Wire" /\ t[3] >= NUM_ROUTED_WIRES

\* C2: assert_equal(x, y) fails with the assertion's error whenever x or y
\* is not routable (a virtual advice target, or a wire whose slot is not
\* routed), whatever the other argument is; it returns only when both are
\* routable; every public input is routable.
C2_RoutabilityPrecondition ==
    /\ \A t \in Targets : t[1] = "PublicInput" => is_routable(t)
    /\ \A t \in Targets : NonRoutable(t) <=> ~is_routable(t)
    /\ last.op = "assert_equal" =>
           /\ (NonRoutable(last.x) \/ NonRoutable(last.y))
                  => outcome = AssertionFailed
           /\ outcome = Ok => (~NonRoutable(last.x) /\ ~NonRoutable(last.y))
           /\ outcome \in {Ok, AssertionFailed}

\* assert_equal(public input, virtual advice target) has failed.
C2_Witness ==
    /\ last.op = "assert_equal"
    /\ last.x[1] = "PublicInput"
    /\ last.y[1] = "VirtualAdviceTarget"
    /\ outcome = AssertionFailed

\* C4: the k-th call of add_gate (from 0) returned k and its instance is
\* at position k of gate_instances, in every state any sequence of builder
\* calls reaches: indices are dense, increasing and never returned twice,
\* and no later call moves, replaces or removes a stored instance.
C4_DenseGateIndices ==
    /\ Len(gate_instances) = Len(add_gate_calls)
    /\ \A k \in 1 .. Len(add_gate_calls) :
           /\ add_gate_calls[k].index = k - 1
           /\ gate_instances[k] = add_gate_calls[k].instance

\* Two different instances were added, and then another operation ran.
C4_Witness ==
    /\ Len(add_gate_calls) = 2
    /\ add_gate_calls[1].instance # add_gate_calls[2].instance
    /\ last.op = "route"
    /\ outcome = Ok

ConstantOps == {"constant", "zero", "one", "two", "neg_one"}

\* C5: every call of constant(c), zero(), one(), two() and neg_one()
\* returns a routable target that holds the constant asked for.
C5_ConstantReturnsRoutableTarget ==
    last.op \in ConstantOps =>
        /\ outcome = Ok
        /\ last.ret \in Targets
        /\ is_routable(last.ret)
        /\ last.holds = last.c

\* The resolution that was started has ended, one way or another.
ResolutionEnded == phase \in {"done", "stalled", "conflict"}

\* The generator route(x, y) registered: it depends on x alone, and a run
\* on the present witness yields the singleton y -> value(x).
RouteGeneratorCopies(x, y) ==
    \E i \in 1 .. Len(generators) :
        /\ dependencies(generators[i]) = <<x>>
        /\ Contains(witness, x)
               => run_once(generators[i], witness) = Singleton(y, witness[x])

\* C3 as stated: after route(x, y), resolution from any initial assignment
\* that determines x ends with y assigned the value of x.
C3_RouteRoundtrip ==
    \A p \in routed :
        (ResolutionEnded /\ Contains(initial, p[1]))
            => (Contains(witness, p[2]) /\ witness[p[2]] = witness[p[1]])

\* C3 amended: route(x, y) registers a generator that depends on x alone
\* and outputs the singleton y -> value(x), and asserts x and y equal;
\* resolution from an initial assignment that determines x either fails
\* on an inconsistent assignment, or ends with y assigned the value of x.
C3_RouteRoundtripUnlessConflict ==
    \A p \in routed :
        /\ RouteGeneratorCopies(p[1], p[2])
        /\ p \in asserted
        /\ (phase \in {"done", "stalled"} /\ Contains(initial, p[1]))
               => /\ Contains(witness, p[2])
                  /\ witness[p[2]] = witness[p[1]]
                  /\ witness[p[1]] = initial[p[1]]

\* route(x, y) on distinct targets, x given and y not: resolution is done
\* and y holds x's value.
C3_Witness ==
    /\ phase = "done"
    /\ \E p \in routed :
           /\ p[1] # p[2]
           /\ Contains(initial, p[1])
           /\ ~Contains(initial, p[2])
           /\ witness[p[2]] = initial[p[1]]

\* b^e in the field.
RECURSIVE Pow(_, _)
Pow(b, e) == IF e = 0 THEN 1 ELSE (b * Pow(b, e - 1)) % ORDER

\* list[1] + list[2]*s + ... + list[n]*s^(n-1) in the field.
RECURSIVE WeightedSum(_, _, _)
WeightedSum(list, s, n) ==
    IF n = 0 THEN 0
    ELSE (WeightedSum(list, s, n - 1) + list[n] * Pow(s, n - 1)) % ORDER

\* C6: the zeta_power_d that verify_assumptions builds evaluates to
\* zeta^(2^degree_pow), and zero_eval to zeta^(2^degree_pow) - 1.
C6_ZetaPowerIsZetaToTheDegree ==
    call.fn = "recursive_verification_circuit" =>
        /\ ret.zeta_power_d = Pow(call.scalar, 2 ^ call.n)
        /\ ret.zero_eval = (Pow(call.scalar, 2 ^ call.n) + ORDER - 1) % ORDER

\* C7: eval_composite_poly on components [c0, ..., c(n-1)] and shift s
\* evaluates to c0 + c1*s + ... + c(n-1)*s^(n-1): to 41 for [3, 5, 7] and
\* s = 2, and to 0 for the empty list.
C7_HornerCompositeEvaluation ==
    call.fn = "eval_composite_poly" =>
        /\ ret.value = WeightedSum(call.list, call.scalar, Len(call.list))
        /\ (call.list = <<3, 5, 7>> /\ call.scalar = 2) => ret.value = 41
        /\ call.list = <<>> => ret.value = 0

\* eval_composite_poly([3, 5, 7], 2) has returned 41.
C7_Witness ==
    /\ call.fn = "eval_composite_poly"
    /\ call.list = <<3, 5, 7>>
    /\ call.scalar = 2
    /\ ret.value = 41

\* The product over i <= k of (u_i + u_i^-1 * x^(2^(i-1))), i from 1.
RECURSIVE HaloProduct(_, _, _)
HaloProduct(x, us, k) ==
    IF k = 0 THEN 1
    ELSE mul(HaloProduct(x, us, k - 1),
             add(us[k], mul(inv(us[k]), Pow(x, 2 ^ (k - 1)))))

\* C8: halo_g(x, us) on nonzero u_i evaluates to the product over i of
\* (u_i + u_i^-1 * x^(2^i)), i counted from 0.
C8_HaloProductOfSquares ==
    (call.fn = "halo_g" /\ \A i \in 1 .. Len(call.list) : call.list[i] # 0)
        => ret.value = HaloProduct(call.scalar, call.list, Len(call.list))

\* C9: every call of recursive_verification_circuit ends in the
\* not-yet-implemented error of verify_assumptions' unfinished terms: it
\* returns no circuit, does not reach build(), and registers neither the
\* alpha reduction nor the final copy.
C9_UnfinishedTermsAbortConstruction ==
    call.fn = "recursive_verification_circuit" =>
        /\ ret.status = NotYetImplemented
        /\ ~ret.returned
        /\ ~ret.built
        /\ ~ret.alpha_reduced
        /\ ~ret.copied

\* recursive_verification_circuit(2) has ended in the error.
C9_Witness ==
    /\ call.fn = "recursive_verification_circuit"
    /\ call.n = 2
    /\ ret.status = NotYetImplemented

\* C10: alpha_reduction on terms [t0, ..., t(n-1)] evaluates to the sum
\* over i of alpha^i * t_i, in the order the terms are given, and to 0 for
\* the empty list.
C10_AlphaWeightsInTermOrder ==
    call.fn = "alpha_reduction" =>
        /\ ret.value = WeightedSum(call.list, call.scalar, Len(call.list))
        /\ call.list = <<>> => ret.value = 0

\* alpha_reduction([1, 2, 3], 2) has returned 1 + 2*2 + 3*4 = 17, and the
\* same terms with the first two exchanged give another value.
C10_Witness ==
    /\ call.fn = "alpha_reduction"
    /\ call.list = <<1, 2, 3>>
    /\ call.scalar = 2
    /\ ret.value = 17
    /\ alpha_reduction(<<2, 1, 3>>, 2) # ret.value

====
